---- MODULE Spec2Model ----
(***************************************************************************)
(* The two diagnostic scripts of the repository, find_error_char.py and    *)
(* check_bytes_correctly.py, as one state machine.  A run opens the schema *)
(* file in binary mode, reads it whole, leaves the with-block and then     *)
(* prints byte/character information around position 1175, one print       *)
(* statement (or one loop iteration) per step.                             *)
(*                                                                         *)
(* Bytes are integers 0..255, a bytes object is a sequence of them         *)
(* (Python index i is TLA+ index i + 1), and a str is a sequence of code   *)
(* points.                                                                 *)
(***************************************************************************)
EXTENDS Integers, Sequences, FiniteSets

(* ------------------------------------------------------------------ *)
(* Program constants                                                   *)
(* ------------------------------------------------------------------ *)

\* the position both scripts inspect
TARGET == 1175

\* find_error_char.py: context slice radius, listing range(T - 10, T + 11)
CtxRadius == 50
FecBefore == 10
FecAfter == 11

\* check_bytes_correctly.py: listing range(T - 5, T + 15)
CbcBefore == 5
CbcAfter == 15

\* b'\n'
NL == 10

\* printable ASCII range of check_bytes_correctly.py line 15
PrintableLo == 32
PrintableHi == 126

(* ------------------------------------------------------------------ *)
(* Bounds of the model                                                 *)
(* ------------------------------------------------------------------ *)

\* how often the script is run on the unchanged file
MaxRuns == 2

\* length of the short files (far shorter than TARGET)
ShortLen == 2

\* the longest file ends MaxTail bytes after the context slice
MaxTail == 5

\* byte of the file wherever the model does not vary it ('a')
Filler == 97

\* bytes tried at the position inspected: newline, 'e', and the two bytes of
\* the UTF-8 encoding of U+00E9 (0xC3 0xA9), each invalid on its own
Alphabet == {NL, 101, 195, 169}

\* positions whose byte is varied, and the bytes tried at each of them
VarPositions == {TARGET - 2, TARGET - 1, TARGET, TARGET + 1}

Tried(p) ==
    IF p = TARGET THEN Alphabet
    ELSE IF p = TARGET - 2 THEN {Filler, NL, 195}
    ELSE {Filler, NL, 169}

FileLens ==
    { 0, ShortLen, TARGET - 2, TARGET, TARGET + 1,
      TARGET + CbcAfter + 5, TARGET + CtxRadius + MaxTail }

\* the file of length n with the bytes v at the varied positions
MkFile(n, v) ==
    [k \in 1..n |-> IF (k - 1) \in VarPositions THEN v[k - 1] ELSE Filler]

Files ==
    { MkFile(n, v) :
        n \in FileLens,
        v \in { w \in [VarPositions -> Alphabet \cup {Filler}] :
                   \A p \in VarPositions : w[p] \in Tried(p) } }

(* ------------------------------------------------------------------ *)
(* Python built-ins used by the scripts                                *)
(* ------------------------------------------------------------------ *)

Max(a, b) == IF a >= b THEN a ELSE b
Min(a, b) == IF a <= b THEN a ELSE b

\* content[i] for 0 <= i < len(content); the callers raise IndexError otherwise
At(s, i) == s[i + 1]
InRange(s, i) == 0 <= i /\ i < Len(s)

\* content[a:b] for a, b >= 0: both ends are clamped to len(content)
Slice(s, a, b) == SubSeq(s, Min(a, Len(s)) + 1, Min(b, Len(s)))

\* content.rfind(b'\n', a, b): highest index in [a, min(b, len)) or -1
RFind(s, byte, a, b) ==
    LET hits == { k \in a..(Min(b, Len(s)) - 1) : At(s, k) = byte }
    IN  IF hits = {} THEN -1 ELSE CHOOSE k \in hits : \A j \in hits : j <= k

\* content.find(b'\n', a): lowest index in [a, len) or -1
Find(s, byte, a) ==
    LET hits == { k \in a..(Len(s) - 1) : At(s, k) = byte }
    IN  IF hits = {} THEN -1 ELSE CHOOSE k \in hits : \A j \in hits : k <= j

\* chr(b): the one-character str with code point b
Chr(b) == <<b>>

\* format(d, 'x') of one hexadecimal digit: '0'..'9', 'a'..'f'
HexDigit(d) == IF d < 10 THEN 48 + d ELSE 87 + d

\* f'{b:02x}' for a byte
Hex2(b) == <<HexDigit(b \div 16), HexDigit(b % 16)>>

\* f'\\x{byte_val:02x}': backslash, 'x', two hex digits
Escape(b) == <<92, 120>> \o Hex2(b)

\* f'0x{byte_val:02x}'
HexLit(b) == <<48, 120>> \o Hex2(b)

\* chr(byte_val) if 32 <= byte_val <= 126 else f'\\x{byte_val:02x}'
Render(b) == IF PrintableLo <= b /\ b <= PrintableHi THEN Chr(b) ELSE Escape(b)

(* bytes.decode('utf-8', errors='replace').  A lead byte announces `need`  *)
(* continuation bytes; the well-formed ranges of the first continuation    *)
(* byte depend on the lead.  An ill-formed sequence is replaced, lead and  *)
(* the continuation bytes that were still acceptable, by one U+FFFD.       *)
Replacement == 65533

IsCont(b) == 128 <= b /\ b <= 191

Need(b) ==
    IF 194 <= b /\ b <= 223 THEN 1
    ELSE IF 224 <= b /\ b <= 239 THEN 2
    ELSE IF 240 <= b /\ b <= 244 THEN 3
    ELSE 0

\* whether c is acceptable as the j-th continuation byte after lead b
ContOk(b, j, c) ==
    IF j > 1 THEN IsCont(c)
    ELSE IF b = 224 THEN 160 <= c /\ c <= 191
    ELSE IF b = 237 THEN 128 <= c /\ c <= 159
    ELSE IF b = 240 THEN 144 <= c /\ c <= 191
    ELSE IF b = 244 THEN 128 <= c /\ c <= 143
    ELSE IsCont(c)

\* number of acceptable continuation bytes following the lead at index k,
\* in input that ends at index lim
Accepted(s, k, lim) ==
    LET b == s[k]
        ok(j) == k + j <= lim /\ ContOk(b, j, s[k + j])
    IN  IF Need(b) >= 1 /\ ok(1)
        THEN IF Need(b) >= 2 /\ ok(2)
             THEN IF Need(b) >= 3 /\ ok(3) THEN 3 ELSE 2
             ELSE 1
        ELSE 0

CodePoint(s, k) ==
    LET b == s[k]
    IN  IF Need(b) = 1 THEN (b - 192) * 64 + (s[k + 1] - 128)
        ELSE IF Need(b) = 2
        THEN (b - 224) * 4096 + (s[k + 1] - 128) * 64 + (s[k + 2] - 128)
        ELSE (b - 240) * 262144 + (s[k + 1] - 128) * 4096
                 + (s[k + 2] - 128) * 64 + (s[k + 3] - 128)

\* the code point the decoder emits for the unit starting at index k, and
\* the number of bytes that unit consumes
UnitValue(s, k, lim) ==
    IF s[k] < 128 THEN s[k]
    ELSE IF Need(s[k]) >= 1 /\ Accepted(s, k, lim) = Need(s[k])
         THEN CodePoint(s, k)
         ELSE Replacement

UnitLen(s, k, lim) == IF s[k] < 128 THEN 1 ELSE Accepted(s, k, lim) + 1

\* the decoder starts a unit at k unless k is a continuation byte consumed by
\* a lead byte up to three positions back (a lead byte is never consumed)
IsStart(s, k, first, lim) ==
    ~ \E j \in 1..3 : k - j >= first /\ Accepted(s, k - j, lim) >= j

\* the decoder's left-to-right pass over the units starting in k..hi (the
\* index of the next unit is bound once, as the element of a singleton)
RECURSIVE DecodeSeq(_, _, _, _)
DecodeSeq(s, k, hi, lim) ==
    IF k > hi THEN <<>>
    ELSE CHOOSE r \in { <<UnitValue(s, k, lim)>> \o DecodeSeq(s, next, hi, lim) :
                           next \in {k + UnitLen(s, k, lim)} } : TRUE

\* the first index from m on at which the decoder starts a unit
FirstStart(s, m, first, lim) ==
    CHOOSE k \in m..(m + 3) :
        /\ IsStart(s, k, first, lim)
        /\ \A j \in m..(k - 1) : ~IsStart(s, j, first, lim)

\* the same pass over lo..hi, where a unit starts at lo and one ends at hi,
\* cut at a unit start near the middle so that the evaluation stays shallow
RECURSIVE DecodeRange(_, _, _, _)
DecodeRange(s, lo, hi, lim) ==
    IF hi - lo < 8 THEN DecodeSeq(s, lo, hi, lim)
    ELSE CHOOSE r \in { DecodeRange(s, lo, mid - 1, lim)
                            \o DecodeRange(s, mid, hi, lim) :
                           mid \in {FirstStart(s, (lo + hi) \div 2 + 1, lo, lim)} } :
             TRUE

\* content[a:b].decode('utf-8', errors='replace') for a, b >= 0
DecodeSlice(s, a, b) ==
    DecodeRange(s, Min(a, Len(s)) + 1, Min(b, Len(s)), Min(b, Len(s)))

\* s.decode('utf-8', errors='replace')
Decode(s) == DecodeSlice(s, 0, Len(s))

(* ------------------------------------------------------------------ *)
(* State                                                               *)
(* ------------------------------------------------------------------ *)

VARIABLES
    script,      \* "fec" (find_error_char.py) or "cbc" (check_bytes_correctly.py)
    file,        \* the bytes of the schema file on disk
    handle,      \* f: "none", "open" or "closed"
    content,     \* the buffer f.read() returned (<<>> before the read)
    pc,          \* the statement the run is at, "done" or "crashed"
    crash,       \* the exception that ended the run, or "none"
    out,         \* standard output: the lines printed so far
    i,           \* the loop variable of the listing
    start,       \* the listing's first offset
    end,         \* the listing's end offset (exclusive)
    line_start,  \* check_bytes_correctly.py line 20
    line_end,    \* check_bytes_correctly.py lines 21-23
    stop,        \* the end of the range object the listing iterates over
    run,         \* number of the current run
    prev         \* what the previous run printed and how it ended

vars ==
    <<script, file, handle, content, pc, crash, out, i, start, end,
      line_start, line_end, stop, run, prev>>

locals == <<i, start, end, line_start, line_end, stop>>

\* print(...): the lines are appended to standard output
Emit(lines) == out' = out \o lines

\* an uncaught exception ends the run; nothing more is printed
Raise(exc) ==
    /\ crash' = exc
    /\ pc' = "crashed"
    /\ UNCHANGED out

Init ==
    /\ script \in {"fec", "cbc"}
    /\ file \in Files
    /\ handle = "none"
    /\ content = <<>>
    /\ pc = "open"
    /\ crash = "none"
    /\ out = <<>>
    /\ i = 0 /\ start = 0 /\ end = 0 /\ line_start = 0 /\ line_end = 0 /\ stop = 0
    /\ run = 1
    /\ prev = <<>>

(* ------------------------------------------------------------------ *)
(* Lines 4-7, the same in both scripts                                 *)
(* ------------------------------------------------------------------ *)

\* line 4: open(..., 'rb') succeeds and the with-block is entered
Open ==
    /\ pc = "open"
    /\ handle' = "open"
    /\ pc' = "read"
    /\ UNCHANGED <<script, file, content, crash, out, locals, run, prev>>

\* line 4: open raises (the file is missing or unreadable); no handle exists
OpenFail ==
    /\ pc = "open"
    /\ crash' = "FileNotFoundError"
    /\ pc' = "crashed"
    /\ UNCHANGED <<script, file, handle, content, out, locals, run, prev>>

\* line 5: content = f.read()
Read ==
    /\ pc = "read"
    /\ content' = file
    /\ pc' = "exit"
    /\ UNCHANGED <<script, file, handle, crash, out, locals, run, prev>>

\* ReadFail without the with-statement: the exception leaves f open
ReadFail_Leak ==
    /\ pc = "read"
    /\ crash' = "OSError"
    /\ pc' = "crashed"
    /\ UNCHANGED <<script, file, handle, content, out, locals, run, prev>>

\* line 5: f.read() raises; the with-statement closes f as the exception
\* leaves the block
ReadFail ==
    /\ pc = "read"
    /\ handle' = "closed"
    /\ crash' = "OSError"
    /\ pc' = "crashed"
    /\ UNCHANGED <<script, file, content, out, locals, run, prev>>

\* end of the with-block: f is closed before line 7 runs
ExitWith ==
    /\ pc = "exit"
    /\ handle' = "closed"
    /\ pc' = "print_len"
    /\ UNCHANGED <<script, file, content, crash, out, locals, run, prev>>

\* line 7: print(f"File length: {len(content)}")
PrintLen ==
    /\ pc = "print_len"
    /\ Emit(<<[kind |-> "File length", n |-> Len(content)]>>)
    /\ pc' = IF script = "fec" THEN "fec_char" ELSE "cbc_window"
    /\ UNCHANGED <<script, file, handle, content, crash, locals, run, prev>>

(* ------------------------------------------------------------------ *)
(* find_error_char.py, lines 8-26                                      *)
(* ------------------------------------------------------------------ *)

\* FecChar reading the byte before the target (content[1174])
FecChar_OffByOne ==
    /\ pc = "fec_char"
    /\ IF InRange(content, TARGET - 1)
       THEN /\ Emit(<<[kind |-> "Character",
                       text |-> Chr(At(content, TARGET - 1))]>>)
            /\ pc' = "fec_byte"
            /\ UNCHANGED crash
       ELSE Raise("IndexError")
    /\ UNCHANGED <<script, file, handle, content, locals, run, prev>>

\* line 8: print(f"Character at position 1175: {chr(content[1175])}")
FecChar ==
    /\ pc = "fec_char"
    /\ IF InRange(content, TARGET)
       THEN /\ Emit(<<[kind |-> "Character", text |-> Chr(At(content, TARGET))]>>)
            /\ pc' = "fec_byte"
            /\ UNCHANGED crash
       ELSE Raise("IndexError")
    /\ UNCHANGED <<script, file, handle, content, locals, run, prev>>

\* FecByte printing the byte before the target (content[1174])
FecByte_OffByOne ==
    /\ pc = "fec_byte"
    /\ IF InRange(content, TARGET - 1)
       THEN /\ Emit(<<[kind |-> "Byte value", n |-> At(content, TARGET - 1)]>>)
            /\ pc' = "fec_context"
            /\ UNCHANGED crash
       ELSE Raise("IndexError")
    /\ UNCHANGED <<script, file, handle, content, locals, run, prev>>

\* line 9: print(f"Byte value: {content[1175]}")
FecByte ==
    /\ pc = "fec_byte"
    /\ IF InRange(content, TARGET)
       THEN /\ Emit(<<[kind |-> "Byte value", n |-> At(content, TARGET)]>>)
            /\ pc' = "fec_context"
            /\ UNCHANGED crash
       ELSE Raise("IndexError")
    /\ UNCHANGED <<script, file, handle, content, locals, run, prev>>

\* lines 12-17: the context slice, decoded with errors='replace'
FecContext ==
    /\ pc = "fec_context"
    /\ start' = Max(0, TARGET - CtxRadius)
    /\ end' = Min(Len(content), TARGET + CtxRadius)
    /\ Emit(<<[kind |-> "Context header"],
              [kind |-> "Context", text |-> DecodeSlice(content, start', end')]>>)
    /\ pc' = "fec_range"
    /\ UNCHANGED <<script, file, handle, content, crash, i, line_start,
                   line_end, stop, run, prev>>

\* FecRange clamping the end of the range to the last index, len(content) - 1
FecRange_ClampLast ==
    /\ pc = "fec_range"
    /\ Emit(<<[kind |-> "Characters header"]>>)
    /\ i' = Max(0, TARGET - FecBefore)
    /\ stop' = Min(Len(content) - 1, TARGET + FecAfter)
    /\ pc' = "fec_loop"
    /\ UNCHANGED <<script, file, handle, content, crash, start, end,
                   line_start, line_end, run, prev>>

\* lines 20-21: the header and range(max(0, 1175 - 10), min(len(content), 1175 + 11))
FecRange ==
    /\ pc = "fec_range"
    /\ Emit(<<[kind |-> "Characters header"]>>)
    /\ i' = Max(0, TARGET - FecBefore)
    /\ stop' = Min(Len(content), TARGET + FecAfter)
    /\ pc' = "fec_loop"
    /\ UNCHANGED <<script, file, handle, content, crash, start, end,
                   line_start, line_end, run, prev>>

\* FecLoop walking the buffer by cutting off its front after each line
FecLoop_Consume ==
    /\ pc = "fec_loop"
    /\ i < stop
    /\ IF InRange(content, i)
       THEN /\ Emit(<<[kind |-> "Position", pos |-> i,
                       text |-> Chr(At(content, i)), marker |-> (i = TARGET)]>>)
            /\ i' = i + 1
            /\ content' = Tail(content)
            /\ UNCHANGED <<pc, crash>>
       ELSE /\ Raise("IndexError")
            /\ UNCHANGED <<i, content>>
    /\ UNCHANGED <<script, file, handle, start, end, line_start,
                   line_end, stop, run, prev>>

\* lines 21-26: one iteration; the target position gets the error marker
FecLoop ==
    /\ pc = "fec_loop"
    /\ i < stop
    /\ IF InRange(content, i)
       THEN /\ Emit(<<[kind |-> "Position", pos |-> i,
                       text |-> Chr(At(content, i)), marker |-> (i = TARGET)]>>)
            /\ i' = i + 1
            /\ UNCHANGED <<pc, crash>>
       ELSE /\ Raise("IndexError")
            /\ UNCHANGED i
    /\ UNCHANGED <<script, file, handle, content, start, end, line_start,
                   line_end, stop, run, prev>>

\* line 21: the range is exhausted; the script ends
FecLoopEnd ==
    /\ pc = "fec_loop"
    /\ i >= stop
    /\ pc' = "done"
    /\ UNCHANGED <<script, file, handle, content, crash, out, locals, run, prev>>

(* ------------------------------------------------------------------ *)
(* check_bytes_correctly.py, lines 10-31                               *)
(* ------------------------------------------------------------------ *)

\* CbcWindow with the two radii swapped: 15 before and 5 after the target
CbcWindow_Swapped ==
    /\ pc = "cbc_window"
    /\ start' = Max(0, TARGET - CbcAfter)
    /\ end' = Min(Len(content), TARGET + CbcBefore)
    /\ Emit(<<[kind |-> "Bytes header"]>>)
    /\ i' = start'
    /\ stop' = end'
    /\ pc' = "cbc_loop"
    /\ UNCHANGED <<script, file, handle, content, crash, line_start,
                   line_end, run, prev>>

\* CbcWindow without the clamp to the file length: end = 1175 + 15
CbcWindow_NoClamp ==
    /\ pc = "cbc_window"
    /\ start' = Max(0, TARGET - CbcBefore)
    /\ end' = TARGET + CbcAfter
    /\ Emit(<<[kind |-> "Bytes header"]>>)
    /\ i' = start'
    /\ stop' = end'
    /\ pc' = "cbc_loop"
    /\ UNCHANGED <<script, file, handle, content, crash, line_start,
                   line_end, run, prev>>

\* lines 10-13: start, end, the header and range(start, end)
CbcWindow ==
    /\ pc = "cbc_window"
    /\ start' = Max(0, TARGET - CbcBefore)
    /\ end' = Min(Len(content), TARGET + CbcAfter)
    /\ Emit(<<[kind |-> "Bytes header"]>>)
    /\ i' = start'
    /\ stop' = end'
    /\ pc' = "cbc_loop"
    /\ UNCHANGED <<script, file, handle, content, crash, line_start,
                   line_end, run, prev>>

\* lines 13-17: one iteration
CbcLoop ==
    /\ pc = "cbc_loop"
    /\ i < stop
    /\ IF InRange(content, i)
       THEN /\ Emit(<<[kind |-> "Position", pos |-> i,
                       hex |-> HexLit(At(content, i)), n |-> At(content, i),
                       text |-> Render(At(content, i)),
                       marker |-> (i = TARGET)]>>)
            /\ i' = i + 1
            /\ UNCHANGED <<pc, crash>>
       ELSE /\ Raise("IndexError")
            /\ UNCHANGED i
    /\ UNCHANGED <<script, file, handle, content, start, end, line_start,
                   line_end, stop, run, prev>>

\* line 13: the range is exhausted
CbcLoopEnd ==
    /\ pc = "cbc_loop"
    /\ i >= stop
    /\ pc' = "cbc_line"
    /\ UNCHANGED <<script, file, handle, content, crash, out, locals, run, prev>>

\* CbcLine searching backward through the target itself: rfind(b'\n', 0, 1176)
CbcLine_Inclusive ==
    /\ pc = "cbc_line"
    /\ line_start' = RFind(content, NL, 0, TARGET + 1) + 1
    /\ line_end' = LET found == Find(content, NL, TARGET)
                   IN  IF found = -1 THEN Len(content) ELSE found
    /\ Emit(<<[kind |-> "Line header"],
              [kind |-> "Line",
               text |-> <<39>> \o DecodeSlice(content, line_start', line_end')
                             \o <<39>>]>>)
    /\ pc' = "cbc_offset"
    /\ UNCHANGED <<script, file, handle, content, crash, i, start, end,
                   stop, run, prev>>

\* lines 20-27: the line around position 1175, decoded with errors='replace'
\* and printed between single quotes
CbcLine ==
    /\ pc = "cbc_line"
    /\ line_start' = RFind(content, NL, 0, TARGET) + 1
    /\ line_end' = LET found == Find(content, NL, TARGET)
                   IN  IF found = -1 THEN Len(content) ELSE found
    /\ Emit(<<[kind |-> "Line header"],
              [kind |-> "Line",
               text |-> <<39>> \o DecodeSlice(content, line_start', line_end')
                             \o <<39>>]>>)
    /\ pc' = "cbc_offset"
    /\ UNCHANGED <<script, file, handle, content, crash, i, start, end,
                   stop, run, prev>>

\* CbcOffset counting columns from one
CbcOffset_OneBased ==
    /\ pc = "cbc_offset"
    /\ Emit(<<[kind |-> "Offset within line", n |-> TARGET - line_start + 1]>>)
    /\ pc' = "done"
    /\ UNCHANGED <<script, file, handle, content, crash, locals, run, prev>>

\* lines 30-31: offset_in_line = 1175 - line_start
CbcOffset ==
    /\ pc = "cbc_offset"
    /\ Emit(<<[kind |-> "Offset within line", n |-> TARGET - line_start]>>)
    /\ pc' = "done"
    /\ UNCHANGED <<script, file, handle, content, crash, locals, run, prev>>

(* ------------------------------------------------------------------ *)
(* A further run of the same script on the unchanged file              *)
(* ------------------------------------------------------------------ *)

Rerun ==
    /\ pc \in {"done", "crashed"}
    /\ run < MaxRuns
    /\ prev' = Append(prev, [out |-> out, crash |-> crash])
    /\ run' = run + 1
    /\ handle' = "none"
    /\ content' = <<>>
    /\ pc' = "open"
    /\ crash' = "none"
    /\ out' = <<>>
    /\ i' = 0 /\ start' = 0 /\ end' = 0 /\ line_start' = 0 /\ line_end' = 0
    /\ stop' = 0
    /\ UNCHANGED <<script, file>>

Next ==
    \/ Open \/ OpenFail \/ Read \/ ReadFail \/ ExitWith \/ PrintLen
    \/ FecChar \/ FecByte \/ FecContext \/ FecRange \/ FecLoop \/ FecLoopEnd
    \/ CbcWindow \/ CbcLoop \/ CbcLoopEnd \/ CbcLine \/ CbcOffset
    \/ Rerun

Spec == Init /\ [][Next]_vars

\* one run of check_bytes_correctly.py alone
InitCbc == Init /\ script = "cbc"

NextCbc ==
    \/ Open \/ OpenFail \/ Read \/ ReadFail \/ ExitWith \/ PrintLen
    \/ CbcWindow \/ CbcLoop \/ CbcLoopEnd \/ CbcLine \/ CbcOffset

\* a sequential script keeps running until it ends or raises
FairSpec == InitCbc /\ [][NextCbc]_vars /\ WF_vars(NextCbc)

(* ------------------------------------------------------------------ *)
(* Vocabulary of the properties                                        *)
(* ------------------------------------------------------------------ *)

\* the read succeeded: content holds what f.read() returned
Loaded == pc \notin {"open", "read"} /\ crash \notin {"FileNotFoundError", "OSError"}

\* the run has ended, normally or by an uncaught exception
Finished == pc \in {"done", "crashed"}

\* the per-position lines of the listing, and those carrying the marker
IsEntry(r) == r.kind = "Position"
IsFlagged(r) == r.kind = "Position" /\ r.marker
Entries == SelectSeq(out, IsEntry)
Flagged == SelectSeq(out, IsFlagged)

LengthLine == [kind |-> "File length", n |-> Len(content)]

(* ------------------------------------------------------------------ *)
(* C1                                                                  *)
(* ------------------------------------------------------------------ *)

C2_TargetByte ==
    (Loaded /\ Len(file) > TARGET) =>
        /\ \A k \in 1..Len(out) :
              LET r == out[k]
              IN  /\ r.kind = "Byte value" => r.n = At(file, TARGET)
                  /\ r.kind = "Character" => r.text = <<At(file, TARGET)>>
                  /\ IsFlagged(r) =>
                        IF script = "cbc"
                        THEN r.n = At(file, TARGET) /\ r.pos = TARGET
                        ELSE r.text = <<At(file, TARGET)>> /\ r.pos = TARGET
        /\ Finished => Len(Flagged) >= 1

C2_Witness ==
    /\ pc = "done" /\ script = "fec"
    /\ Len(Flagged) = 1
    /\ Len(file) > TARGET
    /\ At(file, TARGET) = 195
    /\ At(file, TARGET - 1) = NL

(* ------------------------------------------------------------------ *)
(* C3                                                                  *)
(* ------------------------------------------------------------------ *)

\* C3 as stated: whenever the file is not empty, also when it is not longer
\* than the target offset, the listing of a completed run is non-empty and
\* has exactly one flagged entry.
C3_AnyLength ==
    (pc = "done" /\ Len(content) > 0) =>
        (Len(Entries) > 0 /\ Len(Flagged) = 1)

\* C3 amended: whenever the file is longer than the target offset, the run
\* completes with a non-empty listing that has exactly one flagged entry,
\* the one at offset 1175; when the file is not longer than the target
\* offset no entry is ever flagged.
C3_LongEnough ==
    Loaded =>
        IF Len(content) > TARGET
        THEN Finished =>
               /\ pc = "done"
               /\ Len(Entries) > 0
               /\ Len(Flagged) = 1
               /\ Flagged[1].pos = TARGET
        ELSE Len(Flagged) = 0

C3_Witness ==
    /\ pc = "done" /\ script = "fec"
    /\ Len(content) = TARGET + 1
    /\ Len(Flagged) = 1

(* ------------------------------------------------------------------ *)
(* The line around the target, stated without the scripts' searches    *)
(* ------------------------------------------------------------------ *)

\* offset of the last newline among the bytes before offset t, or -1
PrevNewline(s, t) ==
    LET lim == Min(t, Len(s))
    IN  IF \E k \in 0..(lim - 1) : At(s, k) = NL
        THEN CHOOSE k \in 0..(lim - 1) :
                 /\ At(s, k) = NL
                 /\ \A j \in (k + 1)..(lim - 1) : At(s, j) # NL
        ELSE -1

\* offset of the first newline at or after offset t, or the file length
NextNewlineOrEnd(s, t) ==
    IF \E k \in t..(Len(s) - 1) : At(s, k) = NL
    THEN CHOOSE k \in t..(Len(s) - 1) :
             /\ At(s, k) = NL
             /\ \A j \in t..(k - 1) : At(s, j) # NL
    ELSE Len(s)

\* the bytes of the line check_bytes_correctly.py prints, once it has them
LineBytes == Slice(content, line_start, line_end)

(* ------------------------------------------------------------------ *)
(* C4                                                                  *)
(* ------------------------------------------------------------------ *)

C5_Escaped ==
    Loaded =>
        \A k \in 1..Len(Entries) :
            LET r == Entries[k]
                b == At(file, r.pos)
            IN  /\ (32 <= b /\ b <= 126) => r.text = <<b>>
                /\ ~(32 <= b /\ b <= 126) =>
                      /\ Len(r.text) = 4
                      /\ r.text[1] = 92 /\ r.text[2] = 120
                /\ b = NL => r.text = <<92, 120, 48, 97>>

(* ------------------------------------------------------------------ *)
(* C6                                                                  *)
(* ------------------------------------------------------------------ *)

\* C6 as stated: the containing line starts after the nearest newline at or
\* before the target offset (at 0 if there is none) and ends before the
\* nearest newline at or after it (at the end of the file if there is none).
C6_AtOrBefore ==
    (script = "cbc" /\ pc \in {"cbc_offset", "done"}) =>
        /\ line_start = PrevNewline(content, TARGET + 1) + 1
        /\ line_end = NextNewlineOrEnd(content, TARGET)

\* C6 amended: the containing line starts after the nearest newline strictly
\* before the target offset (at 0 if there is none) and ends before the
\* nearest newline at or after it (at the end of the file if there is none);
\* a newline at the target offset therefore ends the line and is not skipped.
\* The line never includes a newline byte, and what is printed is that byte
\* range decoded, between quotes.
C6_Line ==
    (script = "cbc" /\ pc \in {"cbc_offset", "done"}) =>
        /\ line_start = PrevNewline(content, TARGET) + 1
        /\ line_end = NextNewlineOrEnd(content, TARGET)
        /\ \A k \in 1..Len(LineBytes) : LineBytes[k] # NL
        /\ \E k \in 1..Len(out) :
              /\ out[k].kind = "Line"
              /\ out[k].text = <<39>> \o Decode(LineBytes) \o <<39>>

C6_Witness ==
    /\ script = "cbc" /\ pc = "done"
    /\ Len(content) > TARGET
    /\ At(content, TARGET) = NL
    /\ At(content, TARGET - 1) = 169
    /\ At(content, TARGET - 2) = 195
    /\ line_end = TARGET
    /\ line_start = 0

(* ------------------------------------------------------------------ *)
(* C7                                                                  *)
(* ------------------------------------------------------------------ *)

\* C7: the file handle is never open once anything has been printed, once any
\* statement after the with-block is reached, or once the run has ended;
\* after a failed read the handle is closed too.
C7_HandleReleased ==
    /\ (out # <<>> \/ Finished \/ pc \notin {"open", "read", "exit"}) =>
           handle # "open"
    /\ (Loaded /\ pc # "exit") => handle = "closed"
    /\ crash = "OSError" => handle = "closed"

C7_Witness ==
    /\ pc = "crashed" /\ crash = "OSError"
    /\ handle = "closed" /\ out = <<>>

(* ------------------------------------------------------------------ *)
(* C8                                                                  *)
(* ------------------------------------------------------------------ *)

IoError == {"FileNotFoundError", "OSError"}

\* a finished run printed, and ended, exactly as every earlier run on the
\* same file whose open and read succeeded
C8_SameReport ==
    (Finished /\ Loaded) =>
        \A k \in 1..Len(prev) :
            prev[k].crash \notin IoError =>
                (prev[k].out = out /\ prev[k].crash = crash)

\* within a run no step changes the buffer once it is read, and no step at
\* all changes the file
C8_BufferFrozen ==
    [][ /\ file' = file
        /\ (pc \notin {"open", "read"} /\ pc' # "open") => content' = content ]_vars

\* C8: runs of the same script on the unchanged file produce identical
\* reports, and the byte buffer is never changed after it is read.
C8_Idempotent == []C8_SameReport /\ C8_BufferFrozen

C8_Witness ==
    /\ pc = "done" /\ run = 2
    /\ Len(prev) = 1
    /\ prev[1].crash = "none"
    /\ prev[1].out = out
    /\ Len(Entries) >= CbcBefore + CbcAfter

(* ------------------------------------------------------------------ *)
(* C9                                                                  *)
(* ------------------------------------------------------------------ *)

\* the offsets lo, lo + 1, ..., hi in order
Range(lo, hi) == [k \in 1..Max(0, hi - lo + 1) |-> lo + k - 1]

\* the offsets of the listing, in the order printed
Positions == [k \in 1..Len(Entries) |-> Entries[k].pos]

FlagsRight == \A k \in 1..Len(Entries) : Entries[k].marker <=> (Entries[k].pos = TARGET)

\* C9 as stated: the listing of a completed run covers max(0, 1175 - w) to
\* min(length, 1175 + w) for one radius w, the same before and after the
\* target (the upper end read as included or as excluded), each entry flagged
\* exactly when its offset is 1175.
C9_Symmetric ==
    pc = "done" =>
        /\ FlagsRight
        /\ \E w \in 0..TARGET :
              \/ Positions = Range(Max(0, TARGET - w),
                                   Min(Len(content) - 1, TARGET + w))
              \/ Positions = Range(Max(0, TARGET - w),
                                   Min(Len(content), TARGET + w) - 1)

\* C9 amended: the listing covers, in increasing order, exactly the offsets
\* from max(0, 1175 - before) up to but excluding min(length, 1175 + after),
\* where before = 10 and after = 11 in find_error_char.py (ten bytes on each
\* side of the target) and before = 5 and after = 15 in
\* check_bytes_correctly.py (five bytes before the target, fourteen after);
\* each entry is flagged exactly when its offset is 1175.
C9_Window ==
    Loaded =>
        LET before == IF script = "fec" THEN 10 ELSE 5
            after == IF script = "fec" THEN 11 ELSE 15
            lo == Max(0, TARGET - before)
            hi == Min(Len(content), TARGET + after)
        IN  /\ FlagsRight
            /\ \A k \in 1..Len(Entries) :
                  Entries[k].pos = lo + k - 1 /\ Entries[k].pos < hi
            /\ pc = "done" => Positions = Range(lo, hi - 1)

C9_Witness ==
    /\ script = "cbc" /\ pc = "done"
    /\ Len(Entries) = 20
    /\ Entries[1].pos = 1170
    /\ Entries[20].pos = 1189
    /\ Entries[6].marker

(* ------------------------------------------------------------------ *)
(* C10                                                                 *)
(* ------------------------------------------------------------------ *)

\* check_bytes_correctly.py never raises IndexError; the offsets it lists
\* are offsets of the buffer, each one more than the one before, each shown
\* with the byte stored there; a file that ends before the window lists none
C10_InBounds ==
    (script = "cbc" /\ Loaded) =>
        /\ crash = "none" /\ pc # "crashed"
        /\ \A k \in 1..Len(Entries) :
              /\ 0 <= Entries[k].pos /\ Entries[k].pos < Len(content)
              /\ Entries[k].n = At(content, Entries[k].pos)
              /\ k > 1 => Entries[k].pos = Entries[k - 1].pos + 1
        /\ Len(content) <= TARGET - CbcBefore => Len(Entries) = 0

\* once the read has succeeded the script reaches its last line
C10_Completes ==
    (script = "cbc" /\ Loaded) ~>
        (pc = "done" /\ out[Len(out)].kind = "Offset within line")

\* C10: for a file of any length check_bytes_correctly.py reads only
\* indices inside the buffer, in strictly increasing contiguous order, and
\* runs to its "Offset within line" output without an index error.
C10_RunsToCompletion == []C10_InBounds /\ C10_Completes

C10_Witness ==
    /\ script = "cbc" /\ pc = "done"
    /\ Len(content) = ShortLen
    /\ Len(Entries) = 0
    /\ crash = "none"

====
